---- MODULE Spec2Model ----
(***************************************************************************)
(* Model of github.com/cluttrdev/cli, version.go: the build-metadata       *)
(* provider (BuildInfo and its accessors, pseudo-version synthesis) and    *)
(* the version command (flag registration, Exec, writeText, writeJson).    *)
(*                                                                         *)
(* Go strings are TLA+ strings; s[i:j] is SubSeq(s, i+1, j), len is Len    *)
(* and + is \o.  A Go call either returns a value or panics: an outcome    *)
(* is the record [panic, val].                                             *)
(***************************************************************************)
EXTENDS Integers, Sequences, FiniteSets, TLC

VARIABLES
    bi,      \* the *BuildInfo the command (or the caller) holds
    flags,   \* the flag.FlagSet: [vars: bool variable -> value, actual: names set]
    hist,    \* the flag assignments parsed so far, in order: <<name, value>>
    out,     \* the writes the output sink has received, in order
    err,     \* what Exec returned: "" (not returned), "nil" or an error text
    pc,      \* "parse" | "done" | "panic" (command), "call" | "returned" (accessors)
    called,  \* the accessor called on bi ("" when none)
    ret      \* the value the accessor returned

vars == <<bi, flags, hist, out, err, pc, called, ret>>

-----------------------------------------------------------------------------
(* Bounds of the model *)

\* How many flag assignments one command line holds.
MaxArgs == 2

-----------------------------------------------------------------------------
(* Strings *)

At(s, i) == SubSeq(s, i, i)

Drop(s, n) == SubSeq(s, n + 1, Len(s))

HasPrefix(s, p) == Len(s) >= Len(p) /\ SubSeq(s, 1, Len(p)) = p

DigitChars == <<"0", "1", "2", "3", "4", "5", "6", "7", "8", "9">>

\* isDigit(s, i) of package time, i counted from 0.
isDigit(s, i) == Len(s) > i /\ \E d \in 1..10 : DigitChars[d] = At(s, i + 1)

DigitVal(c) == (CHOOSE d \in 1..10 : DigitChars[d] = c) - 1

\* Two decimal digits, zero padded (n in 0..99).
Pad2(n) == DigitChars[(n \div 10) + 1] \o DigitChars[(n % 10) + 1]

Ret(v) == [panic |-> FALSE, val |-> v]

Panic == [panic |-> TRUE, val |-> ""]

-----------------------------------------------------------------------------
(* time.Parse(time.RFC3339, value), layout "2006-01-02T15:04:05Z07:00" *)

NoNum == [ok |-> FALSE, n |-> 0, rest |-> ""]

\* getnum(s, fixed): one or two leading digits; two are required when fixed.
getnum(s, fixed) ==
    IF ~isDigit(s, 0) THEN NoNum
    ELSE IF ~isDigit(s, 1)
         THEN IF fixed THEN NoNum
              ELSE [ok |-> TRUE, n |-> DigitVal(At(s, 1)), rest |-> Drop(s, 1)]
         ELSE [ok |-> TRUE,
               n |-> DigitVal(At(s, 1)) * 10 + DigitVal(At(s, 2)),
               rest |-> Drop(s, 2)]

\* The four-digit year ("2006").
getyear(s) ==
    IF Len(s) >= 4 /\ \A i \in 0..3 : isDigit(s, i)
    THEN [ok |-> TRUE,
          n |-> DigitVal(At(s, 1)) * 1000 + DigitVal(At(s, 2)) * 100
                + DigitVal(At(s, 3)) * 10 + DigitVal(At(s, 4)),
          rest |-> Drop(s, 4)]
    ELSE NoNum

\* A literal of the layout, which the value must continue with, and the
\* number after it.
numAfter(r, lit, fixed) ==
    IF r.ok /\ HasPrefix(r.rest, lit)
    THEN getnum(Drop(r.rest, Len(lit)), fixed)
    ELSE NoNum

isLeap(year) == year % 4 = 0 /\ (year % 100 # 0 \/ year % 400 = 0)

daysIn(month, year) ==
    IF month = 2 THEN (IF isLeap(year) THEN 29 ELSE 28)
    ELSE IF month \in {4, 6, 9, 11} THEN 30 ELSE 31

RECURSIVE skipDigits(_)
skipDigits(s) == IF isDigit(s, 0) THEN skipDigits(Drop(s, 1)) ELSE s

\* A fractional second the layout does not name: "." or "," and digits.
skipFraction(s) ==
    IF Len(s) >= 2 /\ At(s, 1) \in {".", ","} /\ isDigit(s, 1)
    THEN skipDigits(Drop(s, 2))
    ELSE s

\* "Z07:00": "Z", or a sign and hh:mm.  off is the offset in minutes.
getzone(s) ==
    IF Len(s) >= 1 /\ At(s, 1) = "Z"
    THEN [ok |-> TRUE, n |-> 0, rest |-> Drop(s, 1)]
    ELSE IF Len(s) < 6 \/ At(s, 4) # ":" THEN NoNum
    ELSE LET hr == getnum(SubSeq(s, 2, 3), TRUE)
             mm == getnum(SubSeq(s, 5, 6), TRUE)
         IN  IF ~hr.ok \/ ~mm.ok \/ hr.n > 24 \/ mm.n > 60 THEN NoNum
             ELSE IF At(s, 1) = "+"
                  THEN [ok |-> TRUE, n |-> hr.n * 60 + mm.n, rest |-> Drop(s, 6)]
             ELSE IF At(s, 1) = "-"
                  THEN [ok |-> TRUE, n |-> 0 - (hr.n * 60 + mm.n), rest |-> Drop(s, 6)]
             ELSE NoNum

ParseError ==
    [ok |-> FALSE, year |-> 0, month |-> 0, day |-> 0,
     hour |-> 0, min |-> 0, sec |-> 0, off |-> 0]

ParseRFC3339(value) ==
    LET year  == getyear(value)
        month == numAfter(year, "-", TRUE)
        day   == numAfter(month, "-", TRUE)
        hour  == numAfter(day, "T", FALSE)
        min   == numAfter(hour, ":", TRUE)
        sec   == numAfter(min, ":", TRUE)
        zone  == IF sec.ok THEN getzone(skipFraction(sec.rest)) ELSE NoNum
    IN  IF /\ zone.ok
           /\ zone.rest = ""
           /\ month.n \in 1..12
           /\ hour.n < 24 /\ min.n < 60 /\ sec.n < 60
           /\ day.n >= 1 /\ day.n <= daysIn(month.n, year.n)
        THEN [ok |-> TRUE, year |-> year.n, month |-> month.n, day |-> day.n,
              hour |-> hour.n, min |-> min.n, sec |-> sec.n, off |-> zone.n]
        ELSE ParseError

\* t.Format("060102030405"): "06" two-digit year, "01" month, "02" day,
\* "03" the hour on the 12-hour clock, "04" minute, "05" second.
Hour12(hour) == IF hour % 12 = 0 THEN 12 ELSE hour % 12

Format060102030405(t) ==
    Pad2(t.year % 100) \o Pad2(t.month) \o Pad2(t.day)
    \o Pad2(Hour12(t.hour)) \o Pad2(t.min) \o Pad2(t.sec)

\* strconv.ParseBool
ParseBool(s) ==
    IF s \in {"1", "t", "T", "TRUE", "true", "True"} THEN [ok |-> TRUE, v |-> TRUE]
    ELSE IF s \in {"0", "f", "F", "FALSE", "false", "False"} THEN [ok |-> TRUE, v |-> FALSE]
    ELSE [ok |-> FALSE, v |-> FALSE]

\* strconv.FormatBool, fmt.Sprint of a bool
FormatBool(b) == IF b THEN "true" ELSE "false"

-----------------------------------------------------------------------------
(* BuildInfo *)

Setting(k, v) == [Key |-> k, Value |-> v]

\* &debug.BuildInfo{}: what the provider wraps when ReadBuildInfo fails.
EmptyInfo == [Settings |-> <<>>, MainVersion |-> "", GoVersion |-> ""]

NewBuildInfo(info, version) == [buildInfo |-> info, version |-> version]

DefaultVersionInfo(info) == [buildInfo |-> info, version |-> ""]

\* The value of the first setting with the key; "" when there is none.
Lookup(settings, key) ==
    IF \E i \in 1..Len(settings) : settings[i].Key = key
    THEN LET first == CHOOSE i \in 1..Len(settings) :
                          /\ settings[i].Key = key
                          /\ \A j \in 1..(i - 1) : settings[j].Key # key
         IN  [found |-> TRUE, value |-> settings[first].Value]
    ELSE [found |-> FALSE, value |-> ""]

Revision(b) == Lookup(b.buildInfo.Settings, "vcs.revision").value

Time(b) == Lookup(b.buildInfo.Settings, "vcs.time").value

Modified(b) ==
    LET s == Lookup(b.buildInfo.Settings, "vcs.modified")
    IN  IF s.found THEN (IF ParseBool(s.value).ok THEN ParseBool(s.value).v ELSE FALSE)
        ELSE FALSE

GoVersion(b) == b.buildInfo.GoVersion

\* bi.Revision()[:12] panics when the revision is shorter than 12 bytes.
pseudoVersion(b) ==
    LET t == ParseRFC3339(Time(b))
    IN  IF ~t.ok THEN Ret("")
        ELSE IF Len(Revision(b)) < 12 THEN Panic
        ELSE Ret("v0.0.0-" \o Format060102030405(t) \o "-" \o SubSeq(Revision(b), 1, 12))

Version(b) ==
    IF b.version # "" THEN Ret(b.version)
    ELSE IF pseudoVersion(b).panic THEN Panic
    ELSE IF pseudoVersion(b).val # "" THEN pseudoVersion(b)
    ELSE Ret(b.buildInfo.MainVersion)

-----------------------------------------------------------------------------
(* The flag set of the version command *)

\* RegisterFlags: each flag name and the bool variable its value is stored in.
\* fs.Bool(long) allocates the variable, fs.BoolVar(p, short) shares it.
\* RegisterFlags with -m registered on a variable of its own.
RegisterFlagsOwnM ==
    [name \in {"all", "a", "number", "n", "revision", "r", "time", "t",
               "modified", "m", "go-version", "g", "json"} |->
        CASE name \in {"all", "a"}        -> "a"
          [] name \in {"number", "n"}     -> "n"
          [] name \in {"revision", "r"}   -> "r"
          [] name \in {"time", "t"}       -> "t"
          [] name = "modified"            -> "m"
          [] name = "m"                   -> "m2"
          [] name \in {"go-version", "g"} -> "g"
          [] OTHER                        -> "json"]

RegisterFlags ==
    [name \in {"all", "a", "number", "n", "revision", "r", "time", "t",
               "modified", "m", "go-version", "g", "json"} |->
        CASE name \in {"all", "a"}        -> "a"
          [] name \in {"number", "n"}     -> "n"
          [] name \in {"revision", "r"}   -> "r"
          [] name \in {"time", "t"}       -> "t"
          [] name \in {"modified", "m"}   -> "m"
          [] name \in {"go-version", "g"} -> "g"
          [] OTHER                        -> "json"]

FlagNames == DOMAIN RegisterFlags

BoolVars == {RegisterFlags[name] : name \in FlagNames}

\* flag.NewFlagSet followed by RegisterFlags: every variable false, nothing set.
NewFlagSet == [vars |-> [p \in BoolVars |-> FALSE], actual |-> {}]

\* FlagSet.Set(name, value): the value goes to the flag's variable and the
\* flag joins the set of flags Visit walks.
Set(fs, name, value) ==
    [vars   |-> [fs.vars EXCEPT ![RegisterFlags[name]] = value],
     actual |-> fs.actual \cup {name}]

testFlag(fs, name) ==
    IF name \notin FlagNames THEN FALSE
    ELSE LET v == ParseBool(FormatBool(fs.vars[RegisterFlags[name]]))
         IN  IF ~v.ok THEN FALSE ELSE v.v

\* anyOf telling by the flags' values, not by which flags were set.
anyOfByValue(fs) == \E f \in fs.actual : f # "json" /\ testFlag(fs, f)

\* Exec's Visit loop: a flag other than json was set on the command line.
anyOf(fs) == \E f \in fs.actual : f # "json"

allOf(fs) == testFlag(fs, "all")

-----------------------------------------------------------------------------
(* Rendering *)

WhiteSpace == {" ", "\t", "\n", "\r", "\f"}

RECURSIVE TrimLeft(_)
TrimLeft(s) ==
    IF Len(s) > 0 /\ At(s, 1) \in WhiteSpace THEN TrimLeft(Drop(s, 1)) ELSE s

RECURSIVE TrimRight(_)
TrimRight(s) ==
    IF Len(s) > 0 /\ At(s, Len(s)) \in WhiteSpace
    THEN TrimRight(SubSeq(s, 1, Len(s) - 1))
    ELSE s

\* strings.TrimSpace
TrimSpace(s) == TrimRight(TrimLeft(s))

\* fmt.Fprintln(c.out, s): one Write of s and a newline.
Fprintln(s) == s \o "\n"

\* writeTextFields without the default: the version only on --number or --all.
writeTextFieldsNoDefault(fs, any, all) ==
    [Version   |-> testFlag(fs, "number") \/ all,
     Revision  |-> testFlag(fs, "revision") \/ all,
     Time      |-> testFlag(fs, "time") \/ all,
     GoVersion |-> testFlag(fs, "go-version") \/ all,
     Modified  |-> testFlag(fs, "modified") \/ all]

\* The conditions of writeText's five if statements.
writeTextFields(fs, any, all) ==
    [Version   |-> ~any \/ testFlag(fs, "number") \/ all,
     Revision  |-> testFlag(fs, "revision") \/ all,
     Time      |-> testFlag(fs, "time") \/ all,
     GoVersion |-> testFlag(fs, "go-version") \/ all,
     Modified  |-> testFlag(fs, "modified") \/ all]

\* The line writeText hands to the sink; it panics where Version() does.
writeText(b, fs, any, all) ==
    LET sel == writeTextFields(fs, any, all)
        v   == IF sel.Version THEN Version(b) ELSE Ret("")
        s   == v.val
               \o (IF sel.Revision THEN " " \o Revision(b) ELSE "")
               \o (IF sel.Time THEN " " \o Time(b) ELSE "")
               \o (IF sel.GoVersion THEN " " \o GoVersion(b) ELSE "")
               \o (IF sel.Modified /\ Modified(b) THEN " (modified)" ELSE "")
    IN  IF v.panic THEN Panic ELSE Ret(Fprintln(TrimSpace(s)))

\* writeJsonFields with the version selected whenever json is the only flag
\* that is true.
writeJsonFieldsValueDefault(fs, any, all) ==
    [Version   |-> ~(\E f \in fs.actual : f # "json" /\ testFlag(fs, f))
                   \/ testFlag(fs, "number") \/ all,
     Revision  |-> testFlag(fs, "revision") \/ all,
     Time      |-> testFlag(fs, "time") \/ all,
     GoVersion |-> testFlag(fs, "go-version") \/ all,
     Modified  |-> testFlag(fs, "modified") \/ all]

\* writeJsonFields with Modified left out of --all.
writeJsonFieldsAllButModified(fs, any, all) ==
    [Version   |-> ~any \/ testFlag(fs, "number") \/ all,
     Revision  |-> testFlag(fs, "revision") \/ all,
     Time      |-> testFlag(fs, "time") \/ all,
     GoVersion |-> testFlag(fs, "go-version") \/ all,
     Modified  |-> testFlag(fs, "modified")]

\* The conditions of writeJson's five if statements.
writeJsonFields(fs, any, all) ==
    [Version   |-> ~any \/ testFlag(fs, "number") \/ all,
     Revision  |-> testFlag(fs, "revision") \/ all,
     Time      |-> testFlag(fs, "time") \/ all,
     GoVersion |-> testFlag(fs, "go-version") \/ all,
     Modified  |-> testFlag(fs, "modified") \/ all]

\* encoding/json: a string in quotes, quote and backslash escaped (the
\* control and HTML characters it also escapes occur in no value here).
RECURSIVE Escape(_)
Escape(s) ==
    IF s = "" THEN ""
    ELSE (IF At(s, 1) \in {"\"", "\\"} THEN "\\" ELSE "") \o At(s, 1) \o Escape(Drop(s, 1))

Quote(s) == "\"" \o Escape(s) \o "\""

\* The keys of a map[string]string are encoded in sorted order.
SortedKeys == <<"GoVersion", "Modified", "Revision", "Time", "Version">>

RECURSIVE marshalFrom(_, _)
marshalFrom(data, i) ==
    IF i > Len(SortedKeys) THEN ""
    ELSE IF SortedKeys[i] \notin DOMAIN data THEN marshalFrom(data, i + 1)
    ELSE "," \o Quote(SortedKeys[i]) \o ":" \o Quote(data[SortedKeys[i]])
         \o marshalFrom(data, i + 1)

\* json.Marshal(data): one compact object.
Marshal(data) == "{" \o Drop(marshalFrom(data, 1), 1) \o "}"

\* The map writeJson fills, given the fields it selects.
jsonData(b, sel, version) ==
    [k \in {f \in DOMAIN sel : sel[f]} |->
        CASE k = "Version"   -> version
          [] k = "Revision"  -> Revision(b)
          [] k = "Time"      -> Time(b)
          [] k = "GoVersion" -> GoVersion(b)
          [] OTHER           -> FormatBool(Modified(b))]

\* The line writeJson hands to the sink; it panics where Version() does.
writeJson(b, fs, any, all) ==
    LET sel == writeJsonFields(fs, any, all)
        v   == IF sel.Version THEN Version(b) ELSE Ret("")
    IN  IF v.panic THEN Panic
        ELSE Ret(Fprintln(Marshal(jsonData(b, sel, v.val))))

\* What Exec hands to the sink for a provider and a parsed flag set.
ExecOutcome(b, fs) ==
    IF testFlag(fs, "json")
    THEN writeJson(b, fs, anyOf(fs), allOf(fs))
    ELSE writeText(b, fs, anyOf(fs), allOf(fs))

WriteError == "error writing version information"

-----------------------------------------------------------------------------
(* Inputs *)

Overrides == {"", "v2.0.0", "v0.0.0+unknown"}

\* Values of vcs.time: well formed, out of range, malformed, empty.
TimeValues ==
    {"2024-01-15T10:30:00Z", "2024-01-15T01:00:00Z", "2024-01-15T13:00:00Z",
     "1999-12-31T23:59:59Z", "2024-02-29T09:05:07.25+02:00",
     "2023-02-29T10:00:00Z", "2024-01-15 10:30:00", ""}

TimeSettings == {<<>>} \cup {<<Setting("vcs.time", t)>> : t \in TimeValues}

RevisionSettings ==
    {<<>>} \cup
    {<<Setting("vcs.revision", r)>> : r \in
        {"", "abc", "abcdef123456", "abcdef123456789",
         "0123456789abcdef0123456789abcdef01234567"}}

ModifiedSettings ==
    {<<>>} \cup {<<Setting("vcs.modified", m)>> : m \in {"true", "false", "maybe"}}

\* Settings after the first ones: a second value for each key, or none.
MoreSettings ==
    {<<>>,
     <<Setting("vcs.revision", "ffffffffffffffff"),
       Setting("vcs.time", "2020-06-01T12:00:00Z"),
       Setting("vcs.modified", "true")>>}

\* What debug.ReadBuildInfo can hand to the provider.
ReadBuildInfo ==
    {EmptyInfo} \cup
    {[Settings |-> <<Setting("vcs", "git")>> \o t \o r \o m \o more,
      MainVersion |-> mv, GoVersion |-> "go1.21"] :
        t \in TimeSettings, r \in RevisionSettings, m \in ModifiedSettings,
        more \in MoreSettings, mv \in {"", "(devel)"}}

\* The providers the accessor calls are checked on.
BuildInfos ==
    {NewBuildInfo(info, v) : info \in ReadBuildInfo, v \in Overrides}
    \cup {DefaultVersionInfo(info) : info \in ReadBuildInfo}

-----------------------------------------------------------------------------
(* The accessors, called on a provider *)

InitInfo ==
    /\ bi \in BuildInfos
    /\ flags = NewFlagSet
    /\ hist = <<>>
    /\ out = <<>>
    /\ err = ""
    /\ pc = "call"
    /\ called = ""
    /\ ret = ""

CallVersion ==
    /\ pc = "call"
    /\ called' = "Version"
    /\ IF Version(bi).panic
       THEN pc' = "panic" /\ UNCHANGED ret
       ELSE pc' = "returned" /\ ret' = Version(bi).val
    /\ UNCHANGED <<bi, flags, hist, out, err>>

CallRevision ==
    /\ pc = "call"
    /\ called' = "Revision"
    /\ pc' = "returned"
    /\ ret' = Revision(bi)
    /\ UNCHANGED <<bi, flags, hist, out, err>>

CallTime ==
    /\ pc = "call"
    /\ called' = "Time"
    /\ pc' = "returned"
    /\ ret' = Time(bi)
    /\ UNCHANGED <<bi, flags, hist, out, err>>

CallModified ==
    /\ pc = "call"
    /\ called' = "Modified"
    /\ pc' = "returned"
    /\ ret' = Modified(bi)
    /\ UNCHANGED <<bi, flags, hist, out, err>>

CallGoVersion ==
    /\ pc = "call"
    /\ called' = "GoVersion"
    /\ pc' = "returned"
    /\ ret' = GoVersion(bi)
    /\ UNCHANGED <<bi, flags, hist, out, err>>

NextInfo == CallVersion \/ CallRevision \/ CallTime \/ CallModified \/ CallGoVersion

SpecInfo == InitInfo /\ [][NextInfo]_vars

-----------------------------------------------------------------------------
(* The version command: NewVersionCommand, the parse of the command line,   *)
(* Exec                                                                     *)

FullInfo ==
    [Settings |-> <<Setting("vcs", "git"),
                    Setting("vcs.revision", "abcdef123456789"),
                    Setting("vcs.time", "2024-01-15T10:30:00Z"),
                    Setting("vcs.modified", "true")>>,
     MainVersion |-> "(devel)", GoVersion |-> "go1.21"]

ShortRevisionInfo ==
    [Settings |-> <<Setting("vcs.revision", "abc"),
                    Setting("vcs.time", "2024-01-15T13:00:00Z"),
                    Setting("vcs.modified", "false")>>,
     MainVersion |-> "(devel)", GoVersion |-> "go1.21"]

NoTimeInfo ==
    [Settings |-> <<Setting("vcs.revision", "0123456789abcdef0123456789abcdef01234567"),
                    Setting("vcs.modified", "false")>>,
     MainVersion |-> "v1.2.3", GoVersion |-> "go1.22.1"]

\* The providers the command is run with: examples/version builds one with
\* NewBuildInfo(version) and one with DefaultVersionInfo().
CmdBuildInfos ==
    {NewBuildInfo(FullInfo, "v2.0.0"), NewBuildInfo(EmptyInfo, "v0.0.0+unknown")}
    \cup {DefaultVersionInfo(info) :
            info \in {FullInfo, ShortRevisionInfo, NoTimeInfo, EmptyInfo}}

Init ==
    /\ bi \in CmdBuildInfos
    /\ flags = NewFlagSet
    /\ hist = <<>>
    /\ out = <<>>
    /\ err = ""
    /\ pc = "parse"
    /\ called = ""
    /\ ret = ""

\* The parse of one argument -name or -name=false of the command line: the
\* value is stored and the name recorded as set.  (An argument that does not
\* parse ends the process, flag.ExitOnError, before Exec is called.)
ParseFlag(name, value) ==
    /\ pc = "parse"
    /\ Len(hist) < MaxArgs
    /\ flags' = Set(flags, name, value)
    /\ hist' = Append(hist, <<name, value>>)
    /\ UNCHANGED <<bi, out, err, pc, called, ret>>

\* Exec: the renderer's one write, which the sink takes or rejects; a panic
\* in Version() ends the run before anything is written.
Exec ==
    /\ pc = "parse"
    /\ IF ExecOutcome(bi, flags).panic
       THEN pc' = "panic" /\ UNCHANGED <<out, err>>
       ELSE /\ pc' = "done"
            /\ out' = Append(out, ExecOutcome(bi, flags).val)
            /\ \E ok \in BOOLEAN : err' = IF ok THEN "nil" ELSE WriteError
    /\ UNCHANGED <<bi, flags, hist, called, ret>>

Next ==
    \/ \E name \in FlagNames, value \in BOOLEAN : ParseFlag(name, value)
    \/ Exec

Spec == Init /\ [][Next]_vars

-----------------------------------------------------------------------------
(* The build-metadata provider: claims C1 to C4, under SpecInfo *)

HasKey(b, key) == Lookup(b.buildInfo.Settings, key).found

\* The provider b with t as its (first) vcs.time setting.
WithTime(b, t) ==
    [b EXCEPT !.buildInfo.Settings = <<Setting("vcs.time", t)>> \o @]

\* The twelve characters after "v0.0.0-" of a pseudo-version.
StampOf(v) == SubSeq(v, 8, 19)

IsDigits(s) == \A i \in 0..(Len(s) - 1) : isDigit(s, i)

\* Strings of digits of one length, compared as text (and so as numbers).
RECURSIVE LexLess(_, _)
LexLess(x, y) ==
    IF x = "" \/ y = "" THEN x = "" /\ y # ""
    ELSE IF At(x, 1) = At(y, 1) THEN LexLess(Drop(x, 1), Drop(y, 1))
    ELSE DigitVal(At(x, 1)) < DigitVal(At(y, 1))

\* t1 is an earlier instant than t2, for two parsed times of one zone offset.
Before(t1, t2) ==
    LET k1 == <<t1.year, t1.month, t1.day, t1.hour, t1.min, t1.sec>>
        k2 == <<t2.year, t2.month, t2.day, t2.hour, t2.min, t2.sec>>
    IN  /\ t1.off = t2.off
        /\ \E i \in 1..6 : k1[i] < k2[i] /\ \A j \in 1..(i - 1) : k1[j] = k2[j]

\* C1: Version() resolves in priority order for every override, settings and
\* module version: a non-empty override is returned unchanged; otherwise, if
\* vcs.time parses as RFC3339, the synthesized pseudo-version is returned;
\* otherwise the main module version is returned.
C1_VersionPriority ==
    called = "Version" =>
        /\ pc = "returned"
        /\ IF bi.version # "" THEN ret = bi.version
           ELSE IF ParseRFC3339(Time(bi)).ok
                THEN /\ HasPrefix(ret, "v0.0.0-" \o Format060102030405(ParseRFC3339(Time(bi))) \o "-")
                     /\ HasPrefix(Revision(bi), Drop(ret, 20))
           ELSE ret = bi.buildInfo.MainVersion

\* C2: every accessor is total: whatever the settings hold, and with no
\* override, the call returns a value and never panics; where the key is
\* missing the value is "" (false for Modified).
C2_AccessorsTotal ==
    called # "" =>
        /\ pc = "returned"
        /\ called = "Revision" /\ ~HasKey(bi, "vcs.revision") => ret = ""
        /\ called = "Time" /\ ~HasKey(bi, "vcs.time") => ret = ""
        /\ called = "Modified" /\ ~HasKey(bi, "vcs.modified") => ret = FALSE
        /\ called = "Modified" => ret \in BOOLEAN

\* C3: for every vcs.time that parses and every vcs.revision, with no
\* override, Version() is "v0.0.0-", twelve decimal digits derived from the
\* time, "-", and the first twelve characters of the revision.
C3_PseudoVersionFormat ==
    (called = "Version" /\ bi.version = "" /\ ParseRFC3339(Time(bi)).ok) =>
        /\ pc = "returned"
        /\ Len(ret) = 32
        /\ SubSeq(ret, 1, 7) = "v0.0.0-"
        /\ IsDigits(StampOf(ret))
        /\ StampOf(ret) = Format060102030405(ParseRFC3339(Time(bi)))
        /\ At(ret, 20) = "-"
        /\ Len(Revision(bi)) >= 12
        /\ SubSeq(ret, 21, 32) = SubSeq(Revision(bi), 1, 12)

\* C4: the timestamp field of the pseudo-version sorts by build time: for the
\* build time t1 of the provider and every later build time t2 with the same
\* revision, the field for t1 is less than the field for t2.
C4_TimestampMonotonic ==
    (called = "Version" /\ pc = "returned" /\ bi.version = ""
        /\ ParseRFC3339(Time(bi)).ok) =>
        \A t2 \in TimeValues :
            (ParseRFC3339(t2).ok /\ Before(ParseRFC3339(Time(bi)), ParseRFC3339(t2))) =>
                LexLess(StampOf(ret), StampOf(pseudoVersion(WithTime(bi, t2)).val))

(* What the code does keep of C1 to C3: each holds of every call of       *)
(* Version() that returns, so the panic in pseudoVersion is the one way   *)
(* they fail.                                                             *)
VersionPriorityWhereReturned == pc = "returned" => C1_VersionPriority

PseudoVersionFormatWhereReturned == pc = "returned" => C3_PseudoVersionFormat

OnlyVersionPanics ==
    pc = "panic" =>
        /\ called = "Version" /\ bi.version = ""
        /\ ParseRFC3339(Time(bi)).ok /\ Len(Revision(bi)) < 12

-----------------------------------------------------------------------------
(* The version command: claims C5 to C10, under Spec *)

\* The flag table: each long name and its shorthand.
LongOf(name) ==
    CASE name = "a" -> "all"
      [] name = "n" -> "number"
      [] name = "r" -> "revision"
      [] name = "t" -> "time"
      [] name = "m" -> "modified"
      [] name = "g" -> "go-version"
      [] OTHER      -> name

FieldFlags == {"number", "revision", "time", "modified", "go-version"}

IsJsonEntry(e) == e[1] = "json"

IsFieldEntry(e) == e[1] # "json"

\* The flag set after the assignments of h, from a fresh flag set.
RECURSIVE ParseAll(_)
ParseAll(h) ==
    IF h = <<>> THEN NewFlagSet
    ELSE Set(ParseAll(SubSeq(h, 1, Len(h) - 1)), h[Len(h)][1], h[Len(h)][2])

\* h with every shorthand replaced by its long name.
Longs(h) == [i \in 1..Len(h) |-> <<LongOf(h[i][1]), h[i][2]>>]

\* The value of the last assignment of h through the long name or its
\* shorthand; false when there is none.
LastAssigned(h, long) ==
    LET at == {i \in 1..Len(h) : LongOf(h[i][1]) = long}
    IN  IF at = {} THEN FALSE
        ELSE h[CHOOSE i \in at : \A j \in at : j <= i][2]

\* A flag other than json was supplied.
Supplied(h) == \E i \in 1..Len(h) : h[i][1] # "json"

\* The selection rule of the flag table, read off the command line.
Selected(h) ==
    [Version   |-> ~Supplied(h) \/ LastAssigned(h, "number") \/ LastAssigned(h, "all"),
     Revision  |-> LastAssigned(h, "revision") \/ LastAssigned(h, "all"),
     Time      |-> LastAssigned(h, "time") \/ LastAssigned(h, "all"),
     GoVersion |-> LastAssigned(h, "go-version") \/ LastAssigned(h, "all"),
     Modified  |-> LastAssigned(h, "modified") \/ LastAssigned(h, "all")]

AllFields ==
    [Version |-> TRUE, Revision |-> TRUE, Time |-> TRUE,
     GoVersion |-> TRUE, Modified |-> TRUE]

NoFields ==
    [Version |-> FALSE, Revision |-> FALSE, Time |-> FALSE,
     GoVersion |-> FALSE, Modified |-> FALSE]

RECURSIVE JoinSpace(_)
JoinSpace(fields) ==
    IF fields = <<>> THEN ""
    ELSE IF Len(fields) = 1 THEN fields[1]
    ELSE JoinSpace(SubSeq(fields, 1, Len(fields) - 1)) \o " " \o fields[Len(fields)]

\* The text fields of a selection, in the fixed order; the marker only when
\* Modified is selected and true.
TextFields(b, sel) ==
    (IF sel.Version THEN <<Version(b).val>> ELSE <<>>)
    \o (IF sel.Revision THEN <<Revision(b)>> ELSE <<>>)
    \o (IF sel.Time THEN <<Time(b)>> ELSE <<>>)
    \o (IF sel.GoVersion THEN <<GoVersion(b)>> ELSE <<>>)
    \o (IF sel.Modified /\ Modified(b) THEN <<"(modified)">> ELSE <<>>)

\* What a finished run left: the panic, or the one line written.
Observed == IF pc = "panic" THEN Panic ELSE Ret(out[1])

Finished == pc \in {"done", "panic"}

\* C5: for every flags supplied, writeText selects the same fields as
\* writeJson does when --json is given with them, and supplying json (with
\* either value) changes neither selection; the object written has the keys
\* of the fields writeText selects.
C5_SameFieldsTextJson ==
    /\ \A j \in BOOLEAN :
        LET fj == Set(flags, "json", j)
        IN  /\ writeJsonFields(fj, anyOf(fj), allOf(fj))
                 = writeTextFields(flags, anyOf(flags), allOf(flags))
            /\ writeTextFields(fj, anyOf(fj), allOf(fj))
                 = writeTextFields(flags, anyOf(flags), allOf(flags))
            /\ writeJsonFields(fj, anyOf(fj), allOf(fj))
                 = writeJsonFields(flags, anyOf(flags), allOf(flags))
    /\ (pc = "done" /\ testFlag(flags, "json")) =>
        out = <<Fprintln(Marshal(jsonData(bi,
                    writeTextFields(flags, anyOf(flags), allOf(flags)),
                    Version(bi).val)))>>

C5_Witness ==
    /\ pc = "done"
    /\ hist = <<<<"r", TRUE>>, <<"json", TRUE>>>>
    /\ bi = DefaultVersionInfo(FullInfo)
    /\ out = <<"{\"Revision\":\"abcdef123456789\"}\n">>

\* C6: a run with exactly --number and a run with no field flag end the same
\* way, in text mode and in JSON mode, for every provider: the same line is
\* written, and only the version number is selected.
C6_NoFlagsSameAsNumber ==
    (Finished /\ SelectSeq(hist, IsFieldEntry) = <<<<"number", TRUE>>>>) =>
        LET none == ParseAll(SelectSeq(hist, IsJsonEntry))
            only == [NoFields EXCEPT !.Version = TRUE]
        IN  /\ Observed = ExecOutcome(bi, none)
            /\ Len(out) = IF pc = "done" THEN 1 ELSE 0
            /\ writeTextFields(flags, anyOf(flags), allOf(flags)) = only
            /\ writeJsonFields(flags, anyOf(flags), allOf(flags)) = only
            /\ writeTextFields(none, anyOf(none), allOf(none)) = only
            /\ writeJsonFields(none, anyOf(none), allOf(none)) = only

C6_Witness ==
    /\ pc = "done"
    /\ hist = <<<<"number", TRUE>>>>
    /\ bi = NewBuildInfo(FullInfo, "v2.0.0")
    /\ out = <<"v2.0.0\n">>

\* C7: whenever the all flag is set (--all or -a), all five fields are
\* selected in both render modes, whatever the other field flags hold; the
\* JSON object then written holds all five keys, Modified as the text of the
\* boolean, and the text line holds all five fields.
C7_AllSelectsEverything ==
    LastAssigned(hist, "all") =>
        /\ writeTextFields(flags, anyOf(flags), allOf(flags)) = AllFields
        /\ writeJsonFields(flags, anyOf(flags), allOf(flags)) = AllFields
        /\ (pc = "done" /\ LastAssigned(hist, "json")) =>
            out = <<Marshal([Version   |-> Version(bi).val,
                             Revision  |-> Revision(bi),
                             Time      |-> Time(bi),
                             GoVersion |-> GoVersion(bi),
                             Modified  |-> IF Modified(bi) THEN "true" ELSE "false"])
                    \o "\n">>
        /\ (pc = "done" /\ ~LastAssigned(hist, "json")) =>
            out = <<TrimSpace(JoinSpace(TextFields(bi, AllFields))) \o "\n">>

C7_Witness ==
    /\ pc = "done"
    /\ hist = <<<<"a", TRUE>>, <<"json", TRUE>>>>
    /\ bi = DefaultVersionInfo(FullInfo)
    /\ out = <<"{\"GoVersion\":\"go1.21\",\"Modified\":\"true\",\"Revision\":\"abcdef123456789\",\"Time\":\"2024-01-15T10:30:00Z\",\"Version\":\"v0.0.0-240115103000-abcdef123456\"}\n">>

\* C8: in text mode every invocation performs exactly one write, of one
\* newline-terminated line: the selected fields in the order Version,
\* Revision, Time, GoVersion, marker, joined by single spaces and trimmed;
\* the marker only when Modified is selected and true.
C8_TextOneLine ==
    (Finished /\ ~LastAssigned(hist, "json")) =>
        /\ Len(out) = 1
        /\ out[1] = TrimSpace(JoinSpace(TextFields(bi, Selected(hist)))) \o "\n"

(* What the code does keep of C8: every text-mode run that returns has    *)
(* written that one line, and a run panics only in Version().             *)
TextLineWhereReturned == pc = "done" => C8_TextOneLine

PanicOnlyInVersion ==
    pc = "panic" => (Selected(hist).Version /\ Version(bi).panic /\ out = <<>>)

\* C9: each shorthand is an alias of its long flag: the value the renderer
\* reads for a long name is the value of the last assignment through the long
\* name or its shorthand, a shorthand alone counts as a supplied non-json
\* flag, and replacing shorthands by long names never changes the output.
C9_ShorthandAlias ==
    /\ \A long \in FieldFlags \cup {"all", "json"} :
        testFlag(flags, long) = LastAssigned(hist, long)
    /\ anyOf(flags) = Supplied(hist)
    /\ ExecOutcome(bi, flags) = ExecOutcome(bi, ParseAll(Longs(hist)))
    /\ Finished => Observed = ExecOutcome(bi, ParseAll(Longs(hist)))

C9_Witness ==
    /\ pc = "done"
    /\ hist = <<<<"modified", FALSE>>, <<"m", TRUE>>>>
    /\ bi = DefaultVersionInfo(FullInfo)
    /\ out = <<"(modified)\n">>

\* C10: the default selection of the version number depends on which flags
\* were supplied, not on their values: when a flag other than json was
\* supplied and every field flag and all is false, no field is selected, text
\* mode writes an empty line and JSON mode writes {}; the version number is
\* selected by default only when no flag other than json was supplied.
C10_DefaultBySuppliedFlags ==
    /\ (Supplied(hist) /\ \A long \in FieldFlags \cup {"all"} : ~LastAssigned(hist, long)) =>
        /\ writeTextFields(flags, anyOf(flags), allOf(flags)) = NoFields
        /\ writeJsonFields(flags, anyOf(flags), allOf(flags)) = NoFields
        /\ pc # "panic"
        /\ pc = "done" => out = <<IF LastAssigned(hist, "json") THEN "{}\n" ELSE "\n">>
    /\ (~LastAssigned(hist, "number") /\ ~LastAssigned(hist, "all")) =>
        /\ writeTextFields(flags, anyOf(flags), allOf(flags)).Version = ~Supplied(hist)
        /\ writeJsonFields(flags, anyOf(flags), allOf(flags)).Version = ~Supplied(hist)

C10_Witness ==
    /\ pc = "done"
    /\ hist = <<<<"revision", FALSE>>, <<"json", TRUE>>>>
    /\ bi = DefaultVersionInfo(ShortRevisionInfo)
    /\ out = <<"{}\n">>

====
